---------------------------- MODULE Spec2Model ----------------------------
(***************************************************************************)
(* A model of the "rusty" terminal text editor.                            *)
(*                                                                         *)
(*   prog = "main" : the binary of src/src/main.rs, one loop that renders  *)
(*                   the screen and then reads and handles one key.        *)
(*   prog = "lib"  : the UndoRedoStacks of src/src/buffer.rs, driven by a  *)
(*                   caller that edits an EditorBuffer and records the     *)
(*                   edit.                                                 *)
(*   prog = "find" : the InputHandler of src/src/input.rs and the Renderer *)
(*                   of src/src/render.rs, driven by a loop that reads a   *)
(*                   key, calls the handler of the command it gets back,   *)
(*                   renders, and clears the dirty set.                    *)
(*                                                                         *)
(* Text is a sequence of characters; a character is a one-character        *)
(* string.  Character offsets are 0-based as in the source; TLA+ sequences *)
(* are 1-based, so character i of the source is buffer[i + 1].             *)
(***************************************************************************)
EXTENDS Integers, Sequences, FiniteSets, TLC

(***************************************************************************)
(* Bounds of the model.                                                    *)
(***************************************************************************)
\* Insertions are taken only while the buffer holds fewer characters.
MaxLen == 3
\* Edits are recorded only while the undo stack holds fewer ops.
MaxOps == 2
\* The clock stops advancing after this many half-threshold steps.
MaxTicks == 2
\* The disk holds files of at most this many characters: a longer write fails.
MaxFile == 1
\* The longest file name typed at the prompt.
MaxName == 1
\* Text rows of the terminal: rows - 2 (src/src/main.rs:162).
max_lines == 3
\* The longest search term typed at the Find prompt.
MaxFind == 2

(***************************************************************************)
(* Program constants.                                                      *)
(***************************************************************************)
\* Duration::from_millis(200), in milliseconds.
GROUP_TIME_THRESHOLD == 200
GUTTER_WIDTH == 4

(***************************************************************************)
(* Characters.  NL is the line break; WIDE stands for every character      *)
(* whose UTF-8 encoding is longer than one byte.                           *)
(***************************************************************************)
NL == "\n"
WIDE == "é"
Chars == {"a", NL, WIDE}
\* KeyCode::Char(c): Enter is its own key code, so c is never the line break.
KeyChars == {"a", WIDE}
FileChars == {"f"}

\* char::len_utf8
len_utf8(c) == IF c = WIDE THEN 2 ELSE 1

\* str::len: the length of a string in BYTES.
RECURSIVE str_len(_)
str_len(s) == IF s = <<>> THEN 0 ELSE len_utf8(Head(s)) + str_len(Tail(s))

Min(a, b) == IF a < b THEN a ELSE b

\* Option<T>
None == <<>>
Some(x) == <<x>>

(***************************************************************************)
(* ropey::Rope, as far as the editor uses it.  Every operation panics on   *)
(* an index past the end; the *_ok predicates are those preconditions.     *)
(***************************************************************************)
len_chars(b) == Len(b)

NewlinesIn(b, n) == Cardinality({i \in 1..n : b[i] = NL})

len_lines(b) == NewlinesIn(b, Len(b)) + 1

char_to_line_ok(b, idx) == idx <= Len(b)
char_to_line(b, idx) == NewlinesIn(b, idx)

line_to_char_ok(b, line_idx) == line_idx <= len_lines(b)
line_to_char(b, line_idx) ==
    IF line_idx = 0 THEN 0
    ELSE IF line_idx >= len_lines(b) THEN Len(b)
    ELSE CHOOSE i \in 1..Len(b) : b[i] = NL /\ NewlinesIn(b, i) = line_idx

slice(b, start, end) == SubSeq(b, start + 1, end)

\* Rope::line: the line with its line break, if it has one.
line(b, line_idx) ==
    slice(b, line_to_char(b, line_idx), line_to_char(b, line_idx + 1))

insert_ok(b, idx) == idx <= Len(b)
insert(b, idx, text) == SubSeq(b, 1, idx) \o text \o SubSeq(b, idx + 1, Len(b))
insert_char(b, idx, ch) == insert(b, idx, <<ch>>)

remove_ok(b, start, end) == start <= end /\ end <= Len(b)
remove(b, start, end) == SubSeq(b, 1, start) \o SubSeq(b, end + 1, Len(b))

(***************************************************************************)
(* main.rs: clamped edits.                                                 *)
(***************************************************************************)
\* A variant of safe_remove that clamps a start past the end onto the last
\* character.
safe_remove_clamps_start(b, start, length) ==
    LET from == Min(start, len_chars(b) - 1)
        end == Min(start + length, len_chars(b))
    IN  IF 0 <= from /\ from < end THEN remove(b, from, end) ELSE b

safe_remove(b, start, length) ==
    LET end == Min(start + length, len_chars(b))
    IN  IF start < end THEN remove(b, start, end) ELSE b

\* The buffer after the insertion, and the returned cursor hint.
safe_insert_idx(b, idx) == Min(idx, len_chars(b))
safe_insert_buffer(b, idx, content) == insert(b, safe_insert_idx(b, idx), content)
safe_insert(b, idx, content) == safe_insert_idx(b, idx) + str_len(content)

(***************************************************************************)
(* EditOp, EditAction and the recording of edits.  The fields g_buffer and *)
(* g_cursor of an action are not in the program: they remember the buffer  *)
(* and the cursor from before the action's first op, for the properties    *)
(* that speak of them.                                                     *)
(***************************************************************************)
Insert(char_idx, content) ==
    [kind |-> "Insert", char_idx |-> char_idx, content |-> content]
Delete(char_idx, content) ==
    [kind |-> "Delete", char_idx |-> char_idx, content |-> content]

Top(stack) == stack[Len(stack)]
Pop(stack) == SubSeq(stack, 1, Len(stack) - 1)

RECURSIVE TotalOps(_)
TotalOps(stack) ==
    IF stack = <<>> THEN 0 ELSE Len(Top(stack).ops) + TotalOps(Pop(stack))

\* A variant of Coalesces that never groups an edit with the action before.
Coalesces_never(stack, t) == FALSE

\* A variant of Coalesces that also groups an edit made exactly the
\* threshold after the action's last op.
Coalesces_at_threshold(stack, t) ==
    stack # <<>> /\ t - Top(stack).timestamp <= GROUP_TIME_THRESHOLD

\* The test of add_edit_op, add_insert and add_delete.
Coalesces(stack, t) ==
    stack # <<>> /\ t - Top(stack).timestamp < GROUP_TIME_THRESHOLD

add_edit_op(stack, op, t, gb, gc) ==
    IF Coalesces(stack, t)
    THEN Append(Pop(stack),
                [Top(stack) EXCEPT !.ops = Append(@, op), !.timestamp = t])
    ELSE Append(stack, [ops |-> <<op>>, timestamp |-> t,
                        g_buffer |-> gb, g_cursor |-> gc])


(***************************************************************************)
(* main.rs: undo_action and redo_action.  An editor state st is            *)
(* [buffer, cursor, dirty, ok]; ok turns FALSE when a rope operation is    *)
(* called with an index past the end of the rope, which panics.            *)
(***************************************************************************)
undo_op(st, op) ==
    IF ~st.ok THEN st
    ELSE IF op.kind = "Insert"
    THEN LET b == safe_remove(st.buffer, op.char_idx, str_len(op.content))
         IN  [buffer |-> b,
              cursor |-> op.char_idx,
              dirty  |-> IF char_to_line_ok(b, op.char_idx)
                         THEN st.dirty \cup {char_to_line(b, op.char_idx)}
                         ELSE st.dirty,
              ok     |-> char_to_line_ok(b, op.char_idx)]
    ELSE LET b == safe_insert_buffer(st.buffer, op.char_idx, op.content)
         IN  [buffer |-> b,
              cursor |-> safe_insert(st.buffer, op.char_idx, op.content),
              dirty  |-> IF char_to_line_ok(b, op.char_idx)
                         THEN st.dirty \cup {char_to_line(b, op.char_idx)}
                         ELSE st.dirty,
              ok     |-> char_to_line_ok(b, op.char_idx)]

redo_op(st, op) ==
    IF ~st.ok THEN st
    ELSE IF op.kind = "Insert"
    THEN LET b == safe_insert_buffer(st.buffer, op.char_idx, op.content)
         IN  [buffer |-> b,
              cursor |-> safe_insert(st.buffer, op.char_idx, op.content),
              dirty  |-> IF char_to_line_ok(b, op.char_idx)
                         THEN st.dirty \cup {char_to_line(b, op.char_idx)}
                         ELSE st.dirty,
              ok     |-> char_to_line_ok(b, op.char_idx)]
    ELSE LET b == safe_remove(st.buffer, op.char_idx, str_len(op.content))
         IN  [buffer |-> b,
              cursor |-> Min(op.char_idx, len_chars(b)),
              dirty  |-> IF char_to_line_ok(b, op.char_idx)
                         THEN st.dirty \cup {char_to_line(b, op.char_idx)}
                         ELSE st.dirty,
              ok     |-> char_to_line_ok(b, op.char_idx)]

\* for op in action.ops.iter().rev()
RECURSIVE undo_ops(_, _)
undo_ops(st, ops) ==
    IF ops = <<>> THEN st
    ELSE undo_ops(undo_op(st, ops[Len(ops)]), SubSeq(ops, 1, Len(ops) - 1))

\* for op in &action.ops
RECURSIVE redo_ops(_, _)
redo_ops(st, ops) ==
    IF ops = <<>> THEN st ELSE redo_ops(redo_op(st, Head(ops)), Tail(ops))

\* A variant of undo_action that drops the redo stack when there is nothing
\* to undo.
undo_action_drops_redo(b, c, undo, redo, d) ==
    IF undo = <<>>
    THEN [st |-> [buffer |-> b, cursor |-> c, dirty |-> d, ok |-> TRUE],
          undo |-> undo, redo |-> <<>>]
    ELSE [st |-> undo_ops([buffer |-> b, cursor |-> c, dirty |-> d, ok |-> TRUE],
                          Top(undo).ops),
          undo |-> Pop(undo), redo |-> Append(redo, Top(undo))]

\* The result of undo_action: the editor state and the two stacks.
undo_action(b, c, undo, redo, d) ==
    IF undo = <<>>
    THEN [st |-> [buffer |-> b, cursor |-> c, dirty |-> d, ok |-> TRUE],
          undo |-> undo, redo |-> redo]
    ELSE [st |-> undo_ops([buffer |-> b, cursor |-> c, dirty |-> d, ok |-> TRUE],
                          Top(undo).ops),
          undo |-> Pop(undo), redo |-> Append(redo, Top(undo))]

redo_action(b, c, undo, redo, d) ==
    IF redo = <<>>
    THEN [st |-> [buffer |-> b, cursor |-> c, dirty |-> d, ok |-> TRUE],
          undo |-> undo, redo |-> redo]
    ELSE [st |-> redo_ops([buffer |-> b, cursor |-> c, dirty |-> d, ok |-> TRUE],
                          Top(redo).ops),
          undo |-> Append(undo, Top(redo)), redo |-> Pop(redo)]

(***************************************************************************)
(* main.rs: the text of a screen row.                                      *)
(***************************************************************************)
DigitChars == <<"0", "1", "2", "3", "4", "5", "6", "7", "8", "9">>

\* The decimal digits of n, as format!("{}", n) writes them.
RECURSIVE Decimal(_)
Decimal(n) ==
    IF n < 10 THEN <<DigitChars[n + 1]>>
    ELSE Decimal(n \div 10) \o <<DigitChars[(n % 10) + 1]>>

\* format!("{:>width$}", s): s right-aligned, never cut.
PadLeft(s, width) ==
    IF Len(s) >= width THEN s ELSE [i \in 1..(width - Len(s)) |-> " "] \o s

\* The line without its line break.
line_str(b, line_idx) ==
    LET rope_line == line(b, line_idx)
    IN  IF Len(rope_line) > 0 /\ rope_line[Len(rope_line)] = NL
        THEN SubSeq(rope_line, 1, Len(rope_line) - 1)
        ELSE rope_line

combined_line(b, line_idx) ==
    PadLeft(Decimal(line_idx + 1), GUTTER_WIDTH) \o <<" ">> \o line_str(b, line_idx)

tilde_line == PadLeft(<<>>, GUTTER_WIDTH - 1) \o <<"~", " ">>


(***************************************************************************)
(* The state.                                                              *)
(*   pc      "render": at the top of the loop; "read": blocked in read();  *)
(*           "panicked": a rope operation panicked; "done": the loop was   *)
(*           left through Ctrl-Q.  The library is always at "read".        *)
(*   now     the monotonic clock (Instant::now), in milliseconds.          *)
(*   terminal  what the physical terminal shows in its text rows.          *)
(*   disk    the files, by name: None or Some(content).                    *)
(*   last    not in the program: the command handled last (the commands no *)
(*           property speaks of are "Other"), whether it took effect, the  *)
(*           number of characters typed in a row with every inter-key      *)
(*           delay under the threshold, for an undo the buffer from before *)
(*           it, for add_insert and add_delete the number of actions the   *)
(*           redo stack held before the call, and the statements the       *)
(*           handler executed, in their order; for the Enter of the Find   *)
(*           prompt, in g_before, the confirmed term from before it.       *)
(*   find_input, confirmed_find_term   the fields of InputHandler.         *)
(*   todo    inside Renderer::render: the dirty lines its loop has not     *)
(*           visited yet.                                                  *)
(*   render_line_idx   inside Renderer::render: line_idx of the iteration. *)
(*   remaining   inside Renderer::render: the rest of the line in the      *)
(*           highlight loop.                                               *)
(*   terminal_reverse   for every text row of the terminal, the columns    *)
(*           (from 1) shown in reverse video.                              *)
(***************************************************************************)
VARIABLES prog, pc, now, buffer, cursor_char_idx, viewport_row, dirty_lines,
          undo_stack, redo_stack, clipboard, input_mode, filename_input,
          current_file, status_message, virtual_screen, terminal, disk, last,
          find_input, confirmed_find_term, todo, render_line_idx, remaining,
          terminal_reverse

vars == <<prog, pc, now, buffer, cursor_char_idx, viewport_row, dirty_lines,
          undo_stack, redo_stack, clipboard, input_mode, filename_input,
          current_file, status_message, virtual_screen, terminal, disk, last,
          find_input, confirmed_find_term, todo, render_line_idx, remaining,
          terminal_reverse>>

findVars == <<find_input, confirmed_find_term, todo, render_line_idx, remaining,
              terminal_reverse>>

\* main.rs and the UndoRedoStacks have no search: the state of the find
\* prompt and of Renderer::render stays as constructed.
findDefaults ==
    /\ find_input = <<>>
    /\ confirmed_find_term = None
    /\ todo = {}
    /\ render_line_idx = 0
    /\ remaining = <<>>
    /\ terminal_reverse = [r \in 1..max_lines |-> {}]

textVars == <<buffer, cursor_char_idx>>
histVars == <<undo_stack, redo_stack>>
screenVars == <<viewport_row, virtual_screen, terminal>>
promptVars == <<input_mode, filename_input>>
fileVars == <<current_file, disk>>

FileNames == {<<c>> : c \in FileChars}
\* The file that is on the disk when the editor starts.
InitDoc == <<NL, "a">>

\* The time a blocking read() may take: none, under the threshold, the threshold.
Delays == {0, GROUP_TIME_THRESHOLD \div 2, GROUP_TIME_THRESHOLD}
MaxClock == MaxTicks * (GROUP_TIME_THRESHOLD \div 2)
Times == {t \in {now + d : d \in Delays} : t <= MaxClock}

Did(cmd, acted) ==
    [cmd |-> cmd, acted |-> acted, burst |-> 0, g_before |-> <<>>, g_redo |-> 0,
     order |-> <<>>]

\* The statements of a handler of main.rs, in the order of the source:
\* "mutate" changes the buffer, "record" is add_edit_op, "clear_redo" is
\* redo_stack.clear(), "dirty" inserts into dirty_lines, "cursor" assigns
\* cursor_char_idx, "clipboard" assigns the clipboard, "pop" and "push" move
\* an action from one stack to the other.
Steps(cmd, acted, order) == [Did(cmd, acted) EXCEPT !.order = order]

RECURSIVE Repeat(_, _)
Repeat(s, n) == IF n = 0 THEN <<>> ELSE s \o Repeat(s, n - 1)

\* undo_action and redo_action: pop, the loop over the ops, push.
replay_steps(stack) ==
    IF stack = <<>> THEN <<>>
    ELSE <<"pop">> \o Repeat(<<"mutate", "cursor", "dirty">>, Len(Top(stack).ops))
                  \o <<"push">>

\* A file of more lines than the terminal has text rows.
ViewDoc == <<NL, NL, NL>>

\* main(), up to the loop.
InitMain ==
    /\ prog = "main"
    /\ findDefaults
    /\ pc = "render"
    /\ now = 0
    /\ buffer = <<>>
    /\ cursor_char_idx = 0
    /\ viewport_row = 0
    /\ dirty_lines = 0..(max_lines - 1)
    /\ undo_stack = <<>>
    /\ redo_stack = <<>>
    /\ clipboard = <<>>
    /\ input_mode = "Editing"
    /\ filename_input = <<>>
    /\ current_file = None
    /\ status_message = None
    /\ virtual_screen = [r \in 1..max_lines |-> <<>>]
    /\ terminal = [r \in 1..max_lines |-> <<>>]
    /\ disk = [n \in FileNames |-> Some(InitDoc)]
    /\ last = Did("start", FALSE)

(***************************************************************************)
(* main.rs: the top of the loop, from char_to_line(cursor) to the flush.   *)
(***************************************************************************)
\* A variant of reconcile that scrolls down one line short.
reconcile_one_short(vr, current_line) ==
    IF current_line < vr THEN current_line
    ELSE IF current_line >= vr + max_lines THEN current_line - max_lines
    ELSE vr

\* viewport_row after the reconciliation with the cursor's line.
reconcile(vr, current_line) ==
    IF current_line < vr THEN current_line
    ELSE IF current_line >= vr + max_lines THEN current_line - max_lines + 1
    ELSE vr

\* The lines the reconciliation adds to the dirty set.
reconcile_dirty(vr, current_line) ==
    IF current_line < vr THEN current_line..(vr - 1)
    ELSE IF current_line >= vr + max_lines
    THEN (vr + max_lines)..((current_line - max_lines + 1) + max_lines - 1)
    ELSE {}

\* A variant of intended_row in which the placeholder pass looks at the
\* dirty rows only.
intended_row_dirty_only(b, vr, dirty, r) ==
    LET line_idx == vr + r
    IN  IF line_idx \notin dirty THEN None
        ELSE IF line_idx >= len_lines(b) THEN Some(tilde_line)
        ELSE Some(combined_line(b, line_idx))

\* What the two passes want in row r (0-based), or None to leave it alone.
intended_row(b, vr, dirty, r) ==
    LET line_idx == vr + r
    IN  IF line_idx >= len_lines(b) THEN Some(tilde_line)
        ELSE IF line_idx \in dirty THEN Some(combined_line(b, line_idx))
        ELSE None

\* A variant of needs_write that takes no account of the cache.
needs_write_always(cached_line, want) == want # None

\* if cached_line != combined_line, if cached_line != tilde_line
needs_write(cached_line, want) == want # None /\ cached_line # want[1]

\* The rows (1-based) a pass writes.
rows_written(cache, b, vr, dirty) ==
    {r \in 1..max_lines : needs_write(cache[r], intended_row(b, vr, dirty, r - 1))}

\* The terminal after the pass: the rows written hold the new strings.
paint(rows, cache, b, vr, dirty) ==
    [r \in 1..max_lines |->
        IF r \in rows_written(cache, b, vr, dirty)
        THEN intended_row(b, vr, dirty, r - 1)[1] ELSE rows[r]]

\* A variant of update_line that takes the last row for out of range.
update_line_short(lines, index, content) ==
    IF index < Len(lines) - 1 THEN [lines EXCEPT ![index + 1] = content] ELSE lines

\* VirtualScreen::update_line (index from 0)
update_line(lines, index, content) ==
    IF index < Len(lines) THEN [lines EXCEPT ![index + 1] = content] ELSE lines

\* The cache after the pass: update_line for every row written.
cache_after(cache, b, vr, dirty) ==
    [r \in 1..max_lines |->
        IF r \in rows_written(cache, b, vr, dirty)
        THEN update_line(cache, r - 1, intended_row(b, vr, dirty, r - 1)[1])[r]
        ELSE cache[r]]

Render ==
    /\ prog = "main"
    /\ pc = "render"
    /\ IF ~char_to_line_ok(buffer, cursor_char_idx)
       THEN /\ pc' = "panicked"
            /\ UNCHANGED <<screenVars, dirty_lines>>
       ELSE LET current_line == char_to_line(buffer, cursor_char_idx)
                vr == reconcile(viewport_row, current_line)
                dirty == dirty_lines \cup reconcile_dirty(viewport_row, current_line)
            IN  /\ pc' = "read"
                /\ viewport_row' = vr
                /\ terminal' = paint(terminal, virtual_screen, buffer, vr, dirty)
                /\ virtual_screen' = cache_after(virtual_screen, buffer, vr, dirty)
                /\ dirty_lines' = {}
    /\ UNCHANGED <<prog, findVars, now, textVars, histVars, clipboard, promptVars,
                   fileVars, status_message, last>>


(***************************************************************************)
(* main.rs: the keys of Editing mode.  Every key is read after a delay;    *)
(* t is the clock when its handler runs.  current_line, cursor_col and     *)
(* total_lines are the values computed at the top of the iteration.        *)
(***************************************************************************)
total_lines == len_lines(buffer)
current_line == char_to_line(buffer, cursor_char_idx)
cursor_col == cursor_char_idx - line_to_char(buffer, current_line)

Reading(mode) == prog = "main" /\ pc = "read" /\ input_mode = mode

\* The typed burst: characters typed in a row, each under the threshold
\* after the one before.
Burst(t) ==
    IF last.cmd = "InsertChar" /\ t - now < GROUP_TIME_THRESHOLD
    THEN last.burst + 1 ELSE 1

\* A variant of Quit that leaves the loop from any input mode.
Quit_any_mode(t) ==
    /\ prog = "main"
    /\ pc = "read"
    /\ now' = t
    /\ pc' = "done"
    /\ last' = Did("Other", FALSE)
    /\ UNCHANGED <<prog, findVars, textVars, histVars, screenVars, dirty_lines, clipboard,
                   promptVars, fileVars, status_message>>

\* KeyCode::Char('q') with CONTROL
Quit(t) ==
    /\ Reading("Editing")
    /\ now' = t
    /\ pc' = "done"
    /\ last' = Did("Other", FALSE)
    /\ UNCHANGED <<prog, findVars, textVars, histVars, screenVars, dirty_lines, clipboard,
                   promptVars, fileVars, status_message>>

\* A variant of InsertChar that marks the dirty line before it edits the
\* buffer.
InsertChar_marks_first(t, c) ==
    /\ Reading("Editing")
    /\ Len(buffer) < MaxLen
    /\ TotalOps(undo_stack) < MaxOps
    /\ now' = t
    /\ IF ~insert_ok(buffer, cursor_char_idx)
       THEN /\ pc' = "panicked"
            /\ last' = Did("InsertChar", FALSE)
            /\ UNCHANGED <<textVars, histVars, dirty_lines>>
       ELSE /\ pc' = "render"
            /\ buffer' = insert_char(buffer, cursor_char_idx, c)
            /\ undo_stack' = add_edit_op(undo_stack, Insert(cursor_char_idx, <<c>>),
                                         t, buffer, cursor_char_idx)
            /\ redo_stack' = <<>>
            /\ dirty_lines' = dirty_lines \cup {char_to_line(buffer, cursor_char_idx)}
            /\ cursor_char_idx' = cursor_char_idx + 1
            /\ last' = [Steps("InsertChar", TRUE,
                               <<"dirty", "mutate", "record", "clear_redo", "cursor">>)
                           EXCEPT !.burst = Burst(t)]
    /\ UNCHANGED <<prog, findVars, screenVars, clipboard, promptVars, fileVars, status_message>>

\* KeyCode::Char(c)
InsertChar(t, c) ==
    /\ Reading("Editing")
    /\ Len(buffer) < MaxLen
    /\ TotalOps(undo_stack) < MaxOps
    /\ now' = t
    /\ IF ~insert_ok(buffer, cursor_char_idx)
       THEN /\ pc' = "panicked"
            /\ last' = Did("InsertChar", FALSE)
            /\ UNCHANGED <<textVars, histVars, dirty_lines>>
       ELSE /\ pc' = "render"
            /\ buffer' = insert_char(buffer, cursor_char_idx, c)
            /\ undo_stack' = add_edit_op(undo_stack, Insert(cursor_char_idx, <<c>>),
                                         t, buffer, cursor_char_idx)
            /\ redo_stack' = <<>>
            /\ dirty_lines' = dirty_lines \cup {char_to_line(buffer', cursor_char_idx)}
            /\ cursor_char_idx' = cursor_char_idx + 1
            /\ last' = [Steps("InsertChar", TRUE,
                               <<"mutate", "record", "clear_redo", "dirty", "cursor">>)
                           EXCEPT !.burst = Burst(t)]
    /\ UNCHANGED <<prog, findVars, screenVars, clipboard, promptVars, fileVars, status_message>>

\* KeyCode::Enter
InsertNewline(t) ==
    /\ Reading("Editing")
    /\ Len(buffer) < MaxLen
    /\ TotalOps(undo_stack) < MaxOps
    /\ now' = t
    /\ IF ~insert_ok(buffer, cursor_char_idx)
       THEN /\ pc' = "panicked"
            /\ last' = Did("InsertNewline", FALSE)
            /\ UNCHANGED <<textVars, histVars, dirty_lines>>
       ELSE /\ pc' = "render"
            /\ buffer' = insert_char(buffer, cursor_char_idx, NL)
            /\ undo_stack' = add_edit_op(undo_stack, Insert(cursor_char_idx, <<NL>>),
                                         t, buffer, cursor_char_idx)
            /\ LET curr_line == char_to_line(buffer', cursor_char_idx)
               IN  dirty_lines' = dirty_lines \cup {curr_line, curr_line + 1}
            /\ redo_stack' = <<>>
            /\ cursor_char_idx' = cursor_char_idx + 1
            /\ last' = Steps("InsertNewline", TRUE,
                              <<"mutate", "record", "dirty", "dirty", "clear_redo",
                                "cursor">>)
    /\ UNCHANGED <<prog, findVars, screenVars, clipboard, promptVars, fileVars, status_message>>

\* KeyCode::Backspace
Backspace(t) ==
    /\ Reading("Editing")
    /\ cursor_char_idx > 0 => TotalOps(undo_stack) < MaxOps
    /\ now' = t
    /\ pc' = "render"
    /\ IF cursor_char_idx > 0
       THEN LET del_start == cursor_char_idx - 1
                content == slice(buffer, del_start, cursor_char_idx)
            IN  /\ buffer' = safe_remove(buffer, del_start, str_len(content))
                /\ cursor_char_idx' = del_start
                /\ undo_stack' = add_edit_op(undo_stack, Delete(del_start, content),
                                             t, buffer, cursor_char_idx)
                /\ redo_stack' = <<>>
                /\ dirty_lines' = dirty_lines \cup {char_to_line(buffer', del_start)}
                /\ last' = Steps("Backspace", TRUE,
                                  <<"mutate", "cursor", "record", "clear_redo",
                                    "dirty">>)
       ELSE /\ last' = Did("Backspace", FALSE)
            /\ UNCHANGED <<textVars, histVars, dirty_lines>>
    /\ UNCHANGED <<prog, findVars, screenVars, clipboard, promptVars, fileVars, status_message>>

\* The end of the cursor's line, for Cut and Copy.
line_end ==
    IF current_line + 1 < total_lines
    THEN line_to_char(buffer, current_line + 1)
    ELSE len_chars(buffer)

\* KeyCode::Char('x') with CONTROL
Cut(t) ==
    /\ Reading("Editing")
    /\ TotalOps(undo_stack) < MaxOps
    /\ now' = t
    /\ pc' = "render"
    /\ LET line_start == line_to_char(buffer, current_line)
           content == slice(buffer, line_start, line_end)
       IN  /\ clipboard' = content
           /\ buffer' = safe_remove(buffer, line_start, str_len(content))
           /\ cursor_char_idx' = line_start
           /\ undo_stack' = add_edit_op(undo_stack, Delete(line_start, content),
                                        t, buffer, cursor_char_idx)
           /\ redo_stack' = <<>>
           /\ dirty_lines' = dirty_lines \cup {current_line}
           /\ last' = Steps("Cut", buffer' # buffer,
                             <<"clipboard", "mutate", "cursor", "record",
                               "clear_redo", "dirty">>)
    /\ UNCHANGED <<prog, findVars, screenVars, promptVars, fileVars, status_message>>

\* KeyCode::Char('c') with CONTROL
Copy(t) ==
    /\ Reading("Editing")
    /\ now' = t
    /\ pc' = "render"
    /\ clipboard' = slice(buffer, line_to_char(buffer, current_line), line_end)
    /\ status_message' = Some("Line copied to clipboard")
    /\ last' = Did("Other", FALSE)
    /\ UNCHANGED <<prog, findVars, textVars, histVars, screenVars, dirty_lines, promptVars,
                   fileVars>>

\* A variant of Paste that leaves the redo stack as it is.
Paste_keeps_redo(t) ==
    /\ Reading("Editing")
    /\ Len(buffer) + Len(clipboard) <= MaxLen
    /\ clipboard # <<>> => TotalOps(undo_stack) < MaxOps
    /\ now' = t
    /\ pc' = "render"
    /\ IF clipboard = <<>>
       THEN /\ last' = Did("Paste", FALSE)
            /\ UNCHANGED <<textVars, histVars, dirty_lines>>
       ELSE LET char_idx == cursor_char_idx
            IN  /\ buffer' = safe_insert_buffer(buffer, char_idx, clipboard)
                /\ cursor_char_idx' = safe_insert(buffer, char_idx, clipboard)
                /\ undo_stack' = add_edit_op(undo_stack, Insert(char_idx, clipboard),
                                             t, buffer, cursor_char_idx)
                /\ redo_stack' = redo_stack
                /\ dirty_lines' = dirty_lines \cup {char_to_line(buffer', char_idx)}
                /\ last' = Steps("Paste", TRUE,
                                  <<"mutate", "cursor", "record", "clear_redo",
                                    "dirty">>)
    /\ UNCHANGED <<prog, findVars, screenVars, clipboard, promptVars, fileVars, status_message>>

\* KeyCode::Char('v') with CONTROL
Paste(t) ==
    /\ Reading("Editing")
    /\ Len(buffer) + Len(clipboard) <= MaxLen
    /\ clipboard # <<>> => TotalOps(undo_stack) < MaxOps
    /\ now' = t
    /\ pc' = "render"
    /\ IF clipboard = <<>>
       THEN \* continue
            /\ last' = Did("Paste", FALSE)
            /\ UNCHANGED <<textVars, histVars, dirty_lines>>
       ELSE LET char_idx == cursor_char_idx
            IN  /\ buffer' = safe_insert_buffer(buffer, char_idx, clipboard)
                /\ cursor_char_idx' = safe_insert(buffer, char_idx, clipboard)
                /\ undo_stack' = add_edit_op(undo_stack, Insert(char_idx, clipboard),
                                             t, buffer, cursor_char_idx)
                /\ redo_stack' = <<>>
                /\ dirty_lines' = dirty_lines \cup {char_to_line(buffer', char_idx)}
                /\ last' = Steps("Paste", TRUE,
                                  <<"mutate", "cursor", "record", "clear_redo",
                                    "dirty">>)
    /\ UNCHANGED <<prog, findVars, screenVars, clipboard, promptVars, fileVars, status_message>>


\* KeyCode::Char('z') with CONTROL
Undo(t) ==
    /\ Reading("Editing")
    /\ now' = t
    /\ LET res == undo_action(buffer, cursor_char_idx, undo_stack, redo_stack,
                              dirty_lines)
       IN  IF ~res.st.ok
           THEN /\ pc' = "panicked"
                /\ last' = Did("Undo", FALSE)
                /\ UNCHANGED <<textVars, histVars, dirty_lines>>
           ELSE /\ pc' = "render"
                /\ buffer' = res.st.buffer
                /\ cursor_char_idx' = res.st.cursor
                /\ dirty_lines' = res.st.dirty
                /\ undo_stack' = res.undo
                /\ redo_stack' = res.redo
                /\ last' = [Steps("Undo", undo_stack # <<>>, replay_steps(undo_stack))
                               EXCEPT !.g_before = buffer]
    /\ UNCHANGED <<prog, findVars, screenVars, clipboard, promptVars, fileVars, status_message>>

\* KeyCode::Char('y') with CONTROL
Redo(t) ==
    /\ Reading("Editing")
    /\ now' = t
    /\ LET res == redo_action(buffer, cursor_char_idx, undo_stack, redo_stack,
                              dirty_lines)
       IN  IF ~res.st.ok
           THEN /\ pc' = "panicked"
                /\ last' = Did("Redo", FALSE)
                /\ UNCHANGED <<textVars, histVars, dirty_lines>>
           ELSE /\ pc' = "render"
                /\ buffer' = res.st.buffer
                /\ cursor_char_idx' = res.st.cursor
                /\ dirty_lines' = res.st.dirty
                /\ undo_stack' = res.undo
                /\ redo_stack' = res.redo
                /\ last' = Steps("Redo", redo_stack # <<>>, replay_steps(redo_stack))
    /\ UNCHANGED <<prog, findVars, screenVars, clipboard, promptVars, fileVars, status_message>>

\* The column on target_line for Up and Down.
move_to_line(target_line) ==
    LET target_line_start == line_to_char(buffer, target_line)
        target_line_len == Len(line(buffer, target_line))
        new_col == Min(cursor_col,
                       IF target_line_len > 0 THEN target_line_len - 1 ELSE 0)
    IN  target_line_start + new_col

\* KeyCode::Left, Right, Up, Down
Move(t, key) ==
    /\ Reading("Editing")
    /\ now' = t
    /\ pc' = "render"
    /\ cursor_char_idx' =
         CASE key = "Left" ->
                IF cursor_char_idx > 0 THEN cursor_char_idx - 1 ELSE cursor_char_idx
           [] key = "Right" ->
                IF cursor_char_idx < len_chars(buffer)
                THEN cursor_char_idx + 1 ELSE cursor_char_idx
           [] key = "Up" ->
                IF current_line > 0
                THEN move_to_line(current_line - 1) ELSE cursor_char_idx
           [] key = "Down" ->
                IF current_line + 1 < total_lines
                THEN move_to_line(current_line + 1) ELSE cursor_char_idx
    /\ last' = Did("Other", FALSE)
    /\ UNCHANGED <<prog, findVars, buffer, histVars, screenVars, dirty_lines, clipboard,
                   promptVars, fileVars, status_message>>

(***************************************************************************)
(* Files.  write() and read_to_string() fail for a name that is no file    *)
(* name, write() fails when the disk is full, and both may fail for any    *)
(* other reason the system has (io_ok = FALSE).                            *)
(***************************************************************************)
save_ok(path, io_ok) == io_ok /\ path \in FileNames /\ Len(buffer) <= MaxFile
open_ok(path, io_ok) == io_ok /\ path \in FileNames /\ disk[path] # None

\* KeyCode::Char('s') with CONTROL
SaveKey(t, io_ok) ==
    /\ Reading("Editing")
    /\ now' = t
    /\ pc' = "render"
    /\ IF current_file # None
       THEN LET filename == current_file[1]
            IN  IF save_ok(filename, io_ok)
                THEN /\ disk' = [disk EXCEPT ![filename] = Some(buffer)]
                     /\ status_message' = Some("File saved")
                     /\ last' = Did("SaveOk", TRUE)
                     /\ UNCHANGED promptVars
                ELSE /\ status_message' = Some("Error saving file")
                     /\ last' = Did("SaveFail", FALSE)
                     /\ UNCHANGED <<disk, promptVars>>
       ELSE /\ input_mode' = "EnteringFileNameSave"
            /\ filename_input' = <<>>
            /\ last' = Did("Other", FALSE)
            /\ UNCHANGED <<disk, status_message>>
    /\ UNCHANGED <<prog, findVars, textVars, histVars, screenVars, dirty_lines, clipboard,
                   current_file>>

\* KeyCode::Char('o') with CONTROL
OpenKey(t) ==
    /\ Reading("Editing")
    /\ now' = t
    /\ pc' = "render"
    /\ input_mode' = "EnteringFileNameOpen"
    /\ filename_input' = <<>>
    /\ last' = Did("Other", FALSE)
    /\ UNCHANGED <<prog, findVars, textVars, histVars, screenVars, dirty_lines, clipboard,
                   fileVars, status_message>>

\* Any other key, in any mode: _ => {}
OtherKey(t) ==
    /\ prog = "main"
    /\ pc = "read"
    /\ now' = t
    /\ pc' = "render"
    /\ last' = Did("Other", FALSE)
    /\ UNCHANGED <<prog, findVars, textVars, histVars, screenVars, dirty_lines, clipboard,
                   promptVars, fileVars, status_message>>


(***************************************************************************)
(* main.rs: the keys of the two file-name prompts.                         *)
(***************************************************************************)
Prompting == prog = "main" /\ pc = "read" /\ input_mode # "Editing"

\* KeyCode::Char(c)
NameChar(t, c) ==
    /\ Prompting
    /\ Len(filename_input) < MaxName
    /\ now' = t
    /\ pc' = "render"
    /\ filename_input' = Append(filename_input, c)
    /\ last' = Did("Other", FALSE)
    /\ UNCHANGED <<prog, findVars, textVars, histVars, screenVars, dirty_lines, clipboard,
                   input_mode, fileVars, status_message>>

\* KeyCode::Backspace: String::pop
NameBackspace(t) ==
    /\ Prompting
    /\ now' = t
    /\ pc' = "render"
    /\ filename_input' = IF filename_input = <<>> THEN <<>> ELSE Pop(filename_input)
    /\ last' = Did("Other", FALSE)
    /\ UNCHANGED <<prog, findVars, textVars, histVars, screenVars, dirty_lines, clipboard,
                   input_mode, fileVars, status_message>>

\* KeyCode::Esc
NameEsc(t) ==
    /\ Prompting
    /\ now' = t
    /\ pc' = "render"
    /\ status_message' = IF input_mode = "EnteringFileNameOpen"
                         THEN Some("Open cancelled") ELSE Some("Save cancelled")
    /\ input_mode' = "Editing"
    /\ last' = Did("Esc", FALSE)
    /\ UNCHANGED <<prog, findVars, textVars, histVars, screenVars, dirty_lines, clipboard,
                   filename_input, fileVars>>

\* KeyCode::Enter in EnteringFileNameOpen
ConfirmOpenFile(t, io_ok) ==
    /\ Reading("EnteringFileNameOpen")
    /\ now' = t
    /\ pc' = "render"
    /\ IF open_ok(filename_input, io_ok)
       THEN /\ buffer' = disk[filename_input][1]
            /\ cursor_char_idx' = 0
            /\ current_file' = Some(filename_input)
            /\ status_message' = Some("File loaded")
            /\ viewport_row' = 0
            /\ dirty_lines' = 0..(max_lines - 1)
            /\ last' = Did("OpenOk", TRUE)
       ELSE /\ status_message' = Some("Error opening file")
            /\ last' = Did("OpenFail", FALSE)
            /\ UNCHANGED <<textVars, current_file, viewport_row, dirty_lines>>
    /\ input_mode' = "Editing"
    /\ UNCHANGED <<prog, findVars, histVars, virtual_screen, terminal, clipboard,
                   filename_input, disk>>

\* A variant of ConfirmSaveFile that takes the typed name as the current
\* file before it knows that the write succeeded.
ConfirmSaveFile_names_first(t, io_ok) ==
    /\ Reading("EnteringFileNameSave")
    /\ now' = t
    /\ pc' = "render"
    /\ current_file' = Some(filename_input)
    /\ IF save_ok(filename_input, io_ok)
       THEN /\ disk' = [disk EXCEPT ![filename_input] = Some(buffer)]
            /\ status_message' = Some("File saved")
            /\ last' = Did("SaveOk", TRUE)
       ELSE /\ status_message' = Some("Error saving file")
            /\ last' = Did("SaveFail", FALSE)
            /\ UNCHANGED disk
    /\ input_mode' = "Editing"
    /\ UNCHANGED <<prog, findVars, textVars, histVars, screenVars, dirty_lines, clipboard,
                   filename_input>>

\* KeyCode::Enter in EnteringFileNameSave
ConfirmSaveFile(t, io_ok) ==
    /\ Reading("EnteringFileNameSave")
    /\ now' = t
    /\ pc' = "render"
    /\ IF save_ok(filename_input, io_ok)
       THEN /\ disk' = [disk EXCEPT ![filename_input] = Some(buffer)]
            /\ current_file' = Some(filename_input)
            /\ status_message' = Some("File saved")
            /\ last' = Did("SaveOk", TRUE)
       ELSE /\ status_message' = Some("Error saving file")
            /\ last' = Did("SaveFail", FALSE)
            /\ UNCHANGED <<current_file, disk>>
    /\ input_mode' = "Editing"
    /\ UNCHANGED <<prog, findVars, textVars, histVars, screenVars, dirty_lines, clipboard,
                   filename_input>>

(***************************************************************************)
(* buffer.rs: UndoRedoStacks.                                              *)
(***************************************************************************)
\* A variant of add_insert that never clears the redo stack.
add_insert_keeps_redo(undo, redo, char_idx, content, t, gb, gc) ==
    [undo |-> add_edit_op(undo, Insert(char_idx, content), t, gb, gc),
     redo |-> redo]

\* add_insert and add_delete: the two stacks after the recording.
add_insert(undo, redo, char_idx, content, t, gb, gc) ==
    IF Coalesces(undo, t)
    THEN [undo |-> add_edit_op(undo, Insert(char_idx, content), t, gb, gc),
          redo |-> redo]
    ELSE [undo |-> add_edit_op(undo, Insert(char_idx, content), t, gb, gc),
          redo |-> <<>>]

add_delete(undo, redo, char_idx, content, t, gb, gc) ==
    IF Coalesces(undo, t)
    THEN [undo |-> add_edit_op(undo, Delete(char_idx, content), t, gb, gc),
          redo |-> redo]
    ELSE [undo |-> add_edit_op(undo, Delete(char_idx, content), t, gb, gc),
          redo |-> <<>>]

RECURSIVE Reverse(_)
Reverse(s) == IF s = <<>> THEN <<>> ELSE Append(Reverse(Tail(s)), Head(s))

\* One arm of the match in UndoRedoStacks::undo.
lib_undo_op(st, op) ==
    IF ~st.ok THEN st
    ELSE IF op.kind = "Insert"
    THEN LET end == op.char_idx + str_len(op.content)
         IN  IF ~remove_ok(st.buffer, op.char_idx, end)
             THEN [st EXCEPT !.ok = FALSE]
             ELSE LET b == remove(st.buffer, op.char_idx, end)
                  IN  [buffer |-> b, cursor |-> op.char_idx,
                       dirty |-> st.dirty \cup {char_to_line(b, op.char_idx)},
                       ok |-> TRUE]
    ELSE IF op.content = <<>> \/ ~insert_ok(st.buffer, op.char_idx)
         THEN [st EXCEPT !.ok = FALSE]
         ELSE LET b == insert_char(st.buffer, op.char_idx, Head(op.content))
              IN  [buffer |-> b, cursor |-> op.char_idx + str_len(op.content),
                   dirty |-> st.dirty \cup {char_to_line(b, op.char_idx)},
                   ok |-> TRUE]

\* One arm of the match in UndoRedoStacks::redo.  Every character of the
\* content is inserted at the same index.
lib_redo_op(st, op) ==
    IF ~st.ok THEN st
    ELSE IF op.kind = "Insert"
    THEN IF op.content # <<>> /\ ~insert_ok(st.buffer, op.char_idx)
         THEN [st EXCEPT !.ok = FALSE]
         ELSE LET b == insert(st.buffer, op.char_idx, Reverse(op.content))
              IN  IF ~char_to_line_ok(b, op.char_idx)
                  THEN [st EXCEPT !.ok = FALSE]
                  ELSE [buffer |-> b, cursor |-> op.char_idx + str_len(op.content),
                        dirty |-> st.dirty \cup {char_to_line(b, op.char_idx)},
                        ok |-> TRUE]
    ELSE LET end == op.char_idx + str_len(op.content)
         IN  IF ~remove_ok(st.buffer, op.char_idx, end)
             THEN [st EXCEPT !.ok = FALSE]
             ELSE LET b == remove(st.buffer, op.char_idx, end)
                  IN  [buffer |-> b, cursor |-> op.char_idx,
                       dirty |-> st.dirty \cup {char_to_line(b, op.char_idx)},
                       ok |-> TRUE]

RECURSIVE lib_undo_ops(_, _)
lib_undo_ops(st, ops) ==
    IF ops = <<>> THEN st
    ELSE lib_undo_ops(lib_undo_op(st, ops[Len(ops)]), SubSeq(ops, 1, Len(ops) - 1))

RECURSIVE lib_redo_ops(_, _)
lib_redo_ops(st, ops) ==
    IF ops = <<>> THEN st ELSE lib_redo_ops(lib_redo_op(st, Head(ops)), Tail(ops))

lib_undo(b, c, undo, redo, d) ==
    IF undo = <<>>
    THEN [st |-> [buffer |-> b, cursor |-> c, dirty |-> d, ok |-> TRUE],
          undo |-> undo, redo |-> redo]
    ELSE [st |-> lib_undo_ops([buffer |-> b, cursor |-> c, dirty |-> d, ok |-> TRUE],
                              Top(undo).ops),
          undo |-> Pop(undo), redo |-> Append(redo, Top(undo))]

lib_redo(b, c, undo, redo, d) ==
    IF redo = <<>>
    THEN [st |-> [buffer |-> b, cursor |-> c, dirty |-> d, ok |-> TRUE],
          undo |-> undo, redo |-> redo]
    ELSE [st |-> lib_redo_ops([buffer |-> b, cursor |-> c, dirty |-> d, ok |-> TRUE],
                              Top(redo).ops),
          undo |-> Append(undo, Top(redo)), redo |-> Pop(redo)]


(***************************************************************************)
(* buffer.rs under a caller: it edits the EditorBuffer and records the     *)
(* edit, or asks for an undo or a redo.  The caller passes indices inside  *)
(* the buffer.                                                             *)
(***************************************************************************)
\* The longest text the caller inserts or deletes in one edit.
MaxText == 2

Texts == UNION {[1..n -> Chars] : n \in 1..MaxText}

mainDefaults ==
    /\ viewport_row = 0
    /\ clipboard = <<>>
    /\ input_mode = "Editing"
    /\ filename_input = <<>>
    /\ current_file = None
    /\ status_message = None
    /\ virtual_screen = [r \in 1..max_lines |-> <<>>]
    /\ terminal = [r \in 1..max_lines |-> <<>>]
    /\ disk = [n \in FileNames |-> None]

\* EditorBuffer::new(), UndoRedoStacks::new()
InitLib ==
    /\ prog = "lib"
    /\ findDefaults
    /\ pc = "read"
    /\ now = 0
    /\ buffer = <<>>
    /\ cursor_char_idx = 0
    /\ dirty_lines = {}
    /\ undo_stack = <<>>
    /\ redo_stack = <<>>
    /\ last = Did("start", FALSE)
    /\ mainDefaults

mainUnused == <<viewport_row, clipboard, input_mode, filename_input, current_file,
                status_message, virtual_screen, terminal, disk>>

Calling == prog = "lib" /\ pc = "read"

\* insert_char for every character of text, then add_insert
LibInsert(t, idx, text) ==
    /\ Calling
    /\ idx <= len_chars(buffer)
    /\ Len(buffer) + Len(text) <= MaxLen
    /\ TotalOps(undo_stack) < MaxOps
    /\ now' = t
    /\ buffer' = insert(buffer, idx, text)
    /\ LET rec == add_insert(undo_stack, redo_stack, idx, text, t, buffer,
                             cursor_char_idx)
       IN  undo_stack' = rec.undo /\ redo_stack' = rec.redo
    /\ last' = [Did("add_insert", TRUE) EXCEPT !.g_redo = Len(redo_stack)]
    /\ UNCHANGED <<prog, findVars, pc, cursor_char_idx, dirty_lines, mainUnused>>

\* slice, remove, then add_delete
LibDelete(t, idx, n) ==
    /\ Calling
    /\ idx + n <= len_chars(buffer)
    /\ TotalOps(undo_stack) < MaxOps
    /\ now' = t
    /\ buffer' = remove(buffer, idx, idx + n)
    /\ LET rec == add_delete(undo_stack, redo_stack, idx, slice(buffer, idx, idx + n),
                             t, buffer, cursor_char_idx)
       IN  undo_stack' = rec.undo /\ redo_stack' = rec.redo
    /\ last' = [Did("add_delete", TRUE) EXCEPT !.g_redo = Len(redo_stack)]
    /\ UNCHANGED <<prog, findVars, pc, cursor_char_idx, dirty_lines, mainUnused>>

LibUndo(t) ==
    /\ Calling
    /\ now' = t
    /\ LET res == lib_undo(buffer, cursor_char_idx, undo_stack, redo_stack,
                           dirty_lines)
       IN  IF ~res.st.ok
           THEN /\ pc' = "panicked"
                /\ last' = Did("undo", FALSE)
                /\ UNCHANGED <<textVars, histVars, dirty_lines>>
           ELSE /\ pc' = "read"
                /\ buffer' = res.st.buffer
                /\ cursor_char_idx' = res.st.cursor
                /\ dirty_lines' = res.st.dirty
                /\ undo_stack' = res.undo
                /\ redo_stack' = res.redo
                /\ last' = [Did("undo", undo_stack # <<>>) EXCEPT !.g_before = buffer]
    /\ UNCHANGED <<prog, findVars, mainUnused>>

LibRedo(t) ==
    /\ Calling
    /\ now' = t
    /\ LET res == lib_redo(buffer, cursor_char_idx, undo_stack, redo_stack,
                           dirty_lines)
       IN  IF ~res.st.ok
           THEN /\ pc' = "panicked"
                /\ last' = Did("redo", FALSE)
                /\ UNCHANGED <<textVars, histVars, dirty_lines>>
           ELSE /\ pc' = "read"
                /\ buffer' = res.st.buffer
                /\ cursor_char_idx' = res.st.cursor
                /\ dirty_lines' = res.st.dirty
                /\ undo_stack' = res.undo
                /\ redo_stack' = res.redo
                /\ last' = Did("redo", redo_stack # <<>>)
    /\ UNCHANGED <<prog, findVars, mainUnused>>

(***************************************************************************)
(* The specifications.                                                     *)
(*   Spec       an editing session of main.rs (no file prompt), and the    *)
(*              library under its caller.                                  *)
(*   SpecFiles  a session of main.rs with the file prompts, in which the   *)
(*              text is edited by typing, Undo and Redo.                   *)
(*   SpecView   a session of main.rs from the opening of a file of more    *)
(*              lines than the terminal has text rows: the cursor is       *)
(*              moved, lines are taken out and put back.                   *)
(***************************************************************************)
Init == InitMain \/ InitLib

Next ==
    \/ Render
    \/ \E t \in Times, c \in KeyChars : InsertChar(t, c)
    \/ \E t \in Times : InsertNewline(t)
    \/ \E t \in Times : Backspace(t)
    \/ \E t \in Times : Cut(t)
    \/ \E t \in Times : Copy(t)
    \/ \E t \in Times : Paste(t)
    \/ \E t \in Times : Undo(t)
    \/ \E t \in Times : Redo(t)
    \/ \E t \in Times, key \in {"Left", "Right", "Up", "Down"} : Move(t, key)
    \/ \E t \in Times : OtherKey(t)
    \/ \E t \in Times : Quit(t)
    \/ \E t \in Times, idx \in 0..MaxLen, text \in Texts : LibInsert(t, idx, text)
    \/ \E t \in Times, idx \in 0..MaxLen, n \in 1..MaxText : LibDelete(t, idx, n)
    \/ \E t \in Times : LibUndo(t)
    \/ \E t \in Times : LibRedo(t)

Spec == Init /\ [][Next]_vars

NextFiles ==
    \/ Render
    \/ \E t \in Times, c \in KeyChars : InsertChar(t, c)
    \/ \E t \in Times : Undo(t)
    \/ \E t \in Times : Redo(t)
    \/ \E t \in Times, io_ok \in BOOLEAN : SaveKey(t, io_ok)
    \/ \E t \in Times : OpenKey(t)
    \/ \E t \in Times, c \in FileChars : NameChar(t, c)
    \/ \E t \in Times : NameBackspace(t)
    \/ \E t \in Times : NameEsc(t)
    \/ \E t \in Times, io_ok \in BOOLEAN : ConfirmOpenFile(t, io_ok)
    \/ \E t \in Times, io_ok \in BOOLEAN : ConfirmSaveFile(t, io_ok)
    \/ \E t \in Times : Quit(t)

SpecFiles == InitMain /\ [][NextFiles]_vars

\* main() after Ctrl-O, the name of the file and Enter as its first keys,
\* where the file holds ViewDoc: the state on return from that Enter (the
\* screen shows the empty document that was rendered before).
InitView ==
    /\ prog = "main"
    /\ findDefaults
    /\ pc = "render"
    /\ now = 0
    /\ buffer = ViewDoc
    /\ cursor_char_idx = 0
    /\ viewport_row = 0
    /\ dirty_lines = 0..(max_lines - 1)
    /\ undo_stack = <<>>
    /\ redo_stack = <<>>
    /\ clipboard = <<>>
    /\ input_mode = "Editing"
    /\ filename_input \in FileNames
    /\ current_file = Some(filename_input)
    /\ status_message = Some("File loaded")
    /\ virtual_screen = [r \in 1..max_lines |->
                            IF r = 1 THEN combined_line(<<>>, 0) ELSE tilde_line]
    /\ terminal = virtual_screen
    /\ disk = [n \in FileNames |-> Some(ViewDoc)]
    /\ last = Did("OpenOk", TRUE)

NextView ==
    \/ Render
    \/ \E t \in Times : InsertNewline(t)
    \/ \E t \in Times : Backspace(t)
    \/ \E t \in Times : Cut(t)
    \/ \E t \in Times : Undo(t)
    \/ \E t \in Times : Redo(t)
    \/ \E t \in Times, key \in {"Left", "Right", "Up", "Down"} : Move(t, key)

SpecView == InitView /\ [][NextView]_vars

(***************************************************************************)
(* input.rs and render.rs.  The loop that drives them is not in src/: as   *)
(* spec.md describes it, it reads one key with process_input, calls the    *)
(* handler of the command that comes back, renders, and clears the dirty   *)
(* set.  pc is "read" before process_input, the name of the command        *)
(* between process_input and the command's handler, "render" before        *)
(* Renderer::render, "loop" at the head of its loop over the dirty lines,  *)
(* "highlight" at the head of its highlight loop, "rendered" on its        *)
(* return.  The document is not edited here.                               *)
(***************************************************************************)
\* render.rs: let gutter_width = 4
gutter_width == 4

FindChars == KeyChars
FindDocs == {<<>>, <<"a", WIDE, "a">>, <<"a", NL, "a">>, ViewDoc}
Commands == {"StartFind", "StartOpenFile", "StartSaveFile", "Other"}
NameKeys == {"Esc", "Enter", "Backspace", "Char"}

\* The variables that input.rs and render.rs never write.
findFrame == <<prog, now, buffer, cursor_char_idx, viewport_row, undo_stack,
               redo_stack, clipboard, current_file, status_message, disk>>
inputVars == <<input_mode, filename_input, find_input, confirmed_find_term>>
passVars == <<todo, render_line_idx, remaining>>
paintVars == <<virtual_screen, terminal, terminal_reverse>>

\* String::pop
pop(s) == IF s = <<>> THEN s ELSE SubSeq(s, 1, Len(s) - 1)

\* str::starts_with: true of every string for the empty prefix.
starts_with(s, prefix) ==
    Len(prefix) <= Len(s) /\ SubSeq(s, 1, Len(prefix)) = prefix

\* format!("{:>width$} ", line_idx + 1, width = gutter_width)
gutter(l) == PadLeft(Decimal(l + 1), gutter_width) \o <<" ">>

\* InputHandler::new(), Renderer::new(max_lines), a cleared terminal, and
\* every text row dirty for the first pass.
InitFind ==
    /\ prog = "find"
    /\ pc = "render"
    /\ now = 0
    /\ buffer \in FindDocs
    /\ cursor_char_idx = 0
    /\ dirty_lines = 0..(max_lines - 1)
    /\ undo_stack = <<>>
    /\ redo_stack = <<>>
    /\ last = Did("start", FALSE)
    /\ mainDefaults
    /\ findDefaults

\* process_input, InputMode::Editing: the command of the key is returned,
\* the handler's fields stay as they are.  "Other" is a command whose
\* handler is in neither file.
EditingKey(command) ==
    /\ prog = "find"
    /\ pc = "read"
    /\ input_mode = "Editing"
    /\ pc' = IF command = "Other" THEN "render" ELSE command
    /\ last' = Did(command, FALSE)
    /\ UNCHANGED <<findFrame, inputVars, passVars, paintVars, dirty_lines>>

\* InputHandler::start_find
start_find ==
    /\ prog = "find"
    /\ pc = "StartFind"
    /\ input_mode' = "Finding"
    /\ find_input' = <<>>
    /\ confirmed_find_term' = None
    /\ pc' = "render"
    /\ last' = Did("start_find", TRUE)
    /\ UNCHANGED <<findFrame, filename_input, passVars, paintVars, dirty_lines>>

\* InputHandler::start_open_file
start_open_file ==
    /\ prog = "find"
    /\ pc = "StartOpenFile"
    /\ input_mode' = "EnteringFileNameOpen"
    /\ filename_input' = <<>>
    /\ pc' = "render"
    /\ last' = Did("start_open_file", TRUE)
    /\ UNCHANGED <<findFrame, find_input, confirmed_find_term, passVars, paintVars,
                   dirty_lines>>

\* InputHandler::start_save_file
start_save_file ==
    /\ prog = "find"
    /\ pc = "StartSaveFile"
    /\ input_mode' = "EnteringFileNameSave"
    /\ filename_input' = <<>>
    /\ pc' = "render"
    /\ last' = Did("start_save_file", TRUE)
    /\ UNCHANGED <<findFrame, find_input, confirmed_find_term, passVars, paintVars,
                   dirty_lines>>

\* process_input, InputMode::Finding, KeyCode::Esc
FindingEsc ==
    /\ prog = "find"
    /\ pc = "read"
    /\ input_mode = "Finding"
    /\ confirmed_find_term' = None
    /\ input_mode' = "Editing"
    /\ pc' = "render"
    /\ last' = Did("Esc", TRUE)
    /\ UNCHANGED <<findFrame, filename_input, find_input, passVars, paintVars,
                   dirty_lines>>

\* process_input, InputMode::Finding, KeyCode::Enter: returns ConfirmFind
FindingEnter ==
    /\ prog = "find"
    /\ pc = "read"
    /\ input_mode = "Finding"
    /\ confirmed_find_term' = IF find_input # <<>> THEN Some(find_input) ELSE None
    /\ input_mode' = "Editing"
    /\ pc' = "ConfirmFind"
    /\ last' = [Did("Enter", TRUE) EXCEPT !.g_before = confirmed_find_term]
    /\ UNCHANGED <<findFrame, filename_input, find_input, passVars, paintVars,
                   dirty_lines>>

\* process_input, InputMode::Finding, KeyCode::Backspace
FindingBackspace ==
    /\ prog = "find"
    /\ pc = "read"
    /\ input_mode = "Finding"
    /\ find_input' = pop(find_input)
    /\ pc' = "render"
    /\ last' = Did("Backspace", find_input # <<>>)
    /\ UNCHANGED <<findFrame, input_mode, filename_input, confirmed_find_term,
                   passVars, paintVars, dirty_lines>>

\* process_input, InputMode::Finding, KeyCode::Char(c)
FindingChar(c) ==
    /\ prog = "find"
    /\ pc = "read"
    /\ input_mode = "Finding"
    /\ Len(find_input) < MaxFind
    /\ find_input' = Append(find_input, c)
    /\ pc' = "render"
    /\ last' = Did("Char", TRUE)
    /\ UNCHANGED <<findFrame, input_mode, filename_input, confirmed_find_term,
                   passVars, paintVars, dirty_lines>>

\* A variant of confirm_find that confirms the typed term even when it is
\* empty.
confirm_find_keeps_empty ==
    /\ prog = "find"
    /\ pc = "ConfirmFind"
    /\ confirmed_find_term' = Some(find_input)
    /\ dirty_lines' = dirty_lines \cup 0..(len_lines(buffer) - 1)
    /\ input_mode' = "Editing"
    /\ pc' = "render"
    /\ last' = Did("confirm_find", TRUE)
    /\ UNCHANGED <<findFrame, filename_input, find_input, passVars, paintVars>>

\* InputHandler::confirm_find
confirm_find ==
    /\ prog = "find"
    /\ pc = "ConfirmFind"
    /\ IF find_input = <<>>
       THEN /\ confirmed_find_term' = None
            /\ UNCHANGED dirty_lines
       ELSE /\ confirmed_find_term' = Some(find_input)
            /\ dirty_lines' = dirty_lines \cup 0..(len_lines(buffer) - 1)
    /\ input_mode' = "Editing"
    /\ pc' = "render"
    /\ last' = Did("confirm_find", find_input # <<>>)
    /\ UNCHANGED <<findFrame, filename_input, find_input, passVars, paintVars>>

\* process_input, InputMode::EnteringFileNameOpen and EnteringFileNameSave.
\* The handlers of ConfirmOpenFile and ConfirmSaveFile are in neither file.
FileNameKey(key, c) ==
    /\ prog = "find"
    /\ pc = "read"
    /\ input_mode \in {"EnteringFileNameOpen", "EnteringFileNameSave"}
    /\ key = "Char" => Len(filename_input) < MaxName
    /\ input_mode' = IF key \in {"Esc", "Enter"} THEN "Editing" ELSE input_mode
    /\ filename_input' = CASE key = "Backspace" -> pop(filename_input)
                           [] key = "Char" -> Append(filename_input, c)
                           [] OTHER -> filename_input
    /\ pc' = "render"
    /\ last' = Did("Other", FALSE)
    /\ UNCHANGED <<findFrame, find_input, confirmed_find_term, passVars, paintVars,
                   dirty_lines>>

\* Renderer::render, up to its loop over the dirty lines.  The header and
\* the prompt line are outside the text rows.
render_begin ==
    /\ prog = "find"
    /\ pc = "render"
    /\ todo' = dirty_lines
    /\ pc' = "loop"
    /\ last' = Did("render", FALSE)
    /\ UNCHANGED <<findFrame, inputVars, render_line_idx, remaining, paintVars,
                   dirty_lines>>

\* Renderer::render, one iteration of the loop over the dirty lines, up to
\* the highlight loop; a HashSet iterates in any order.  last.acted tells
\* whether the iteration wrote to the terminal.
render_line(l) ==
    /\ prog = "find"
    /\ pc = "loop"
    /\ l \in todo
    /\ todo' = todo \ {l}
    /\ render_line_idx' = l
    /\ LET view_line_idx == l - viewport_row
           row == view_line_idx + 1
       IN  IF l < viewport_row \/ l >= viewport_row + max_lines
           THEN /\ pc' = "loop"
                /\ last' = Did("render_line", FALSE)
                /\ UNCHANGED <<paintVars, remaining>>
           ELSE IF l >= len_lines(buffer)
           THEN /\ pc' = "loop"
                /\ IF virtual_screen[row] # tilde_line
                   THEN /\ terminal' = [terminal EXCEPT ![row] = tilde_line]
                        /\ terminal_reverse' = [terminal_reverse EXCEPT ![row] = {}]
                        /\ virtual_screen' =
                               update_line(virtual_screen, view_line_idx, tilde_line)
                        /\ last' = Did("render_line", TRUE)
                   ELSE /\ last' = Did("render_line", FALSE)
                        /\ UNCHANGED paintVars
                /\ UNCHANGED remaining
           ELSE /\ terminal_reverse' = [terminal_reverse EXCEPT ![row] = {}]
                /\ last' = Did("render_line", TRUE)
                /\ IF confirmed_find_term # None
                   THEN /\ terminal' = [terminal EXCEPT ![row] = gutter(l)]
                        /\ remaining' = line_str(buffer, l)
                        /\ pc' = "highlight"
                        /\ UNCHANGED virtual_screen
                   ELSE /\ terminal' = [terminal EXCEPT
                                          ![row] = gutter(l) \o line_str(buffer, l)]
                        /\ virtual_screen' =
                               update_line(virtual_screen, view_line_idx,
                                           gutter(l) \o line_str(buffer, l))
                        /\ pc' = "loop"
                        /\ UNCHANGED remaining
    /\ UNCHANGED <<findFrame, inputVars, dirty_lines>>

\* Renderer::render, the test of the highlight loop and one iteration of
\* it, or on its exit the update of the cache.
highlight_step ==
    /\ prog = "find"
    /\ pc = "highlight"
    /\ LET find_term == confirmed_find_term[1]
           view_line_idx == render_line_idx - viewport_row
           row == view_line_idx + 1
           col == Len(terminal[row])
       IN  IF remaining = <<>>
           THEN /\ virtual_screen' =
                       update_line(virtual_screen, view_line_idx,
                                   gutter(render_line_idx)
                                       \o line_str(buffer, render_line_idx))
                /\ pc' = "loop"
                /\ UNCHANGED <<terminal, terminal_reverse, remaining>>
           ELSE IF starts_with(remaining, find_term)
           THEN /\ terminal' = [terminal EXCEPT ![row] = @ \o find_term]
                /\ terminal_reverse' =
                       [terminal_reverse EXCEPT
                          ![row] = @ \cup (col + 1)..(col + Len(find_term))]
                /\ remaining' = SubSeq(remaining, Len(find_term) + 1, Len(remaining))
                /\ pc' = "highlight"
                /\ UNCHANGED virtual_screen
           ELSE /\ terminal' = [terminal EXCEPT ![row] = Append(@, Head(remaining))]
                /\ remaining' = Tail(remaining)
                /\ pc' = "highlight"
                /\ UNCHANGED <<virtual_screen, terminal_reverse>>
    /\ last' = Did("highlight", remaining # <<>>)
    /\ UNCHANGED <<findFrame, inputVars, todo, render_line_idx, dirty_lines>>

\* Renderer::render, from the end of the loop to the return.
render_end ==
    /\ prog = "find"
    /\ pc = "loop"
    /\ todo = {}
    /\ pc' = "rendered"
    /\ last' = Did("render", TRUE)
    /\ UNCHANGED <<findFrame, inputVars, passVars, paintVars, dirty_lines>>

\* The caller, after the pass: the dirty set is cleared.
clear_dirty ==
    /\ prog = "find"
    /\ pc = "rendered"
    /\ dirty_lines' = {}
    /\ pc' = "read"
    /\ last' = Did("clear_dirty", dirty_lines # {})
    /\ UNCHANGED <<findFrame, inputVars, passVars, paintVars>>

NextFind ==
    \/ \E command \in Commands : EditingKey(command)
    \/ start_find
    \/ start_open_file
    \/ start_save_file
    \/ FindingEsc
    \/ FindingEnter
    \/ FindingBackspace
    \/ \E c \in FindChars : FindingChar(c)
    \/ confirm_find
    \/ \E key \in NameKeys, c \in FileChars : FileNameKey(key, c)
    \/ render_begin
    \/ \E l \in todo : render_line(l)
    \/ highlight_step
    \/ render_end
    \/ clear_dirty

SpecFind == InitFind /\ [][NextFind]_vars



(***************************************************************************)
(* Properties.                                                             *)
(***************************************************************************)
\* A step that handles one key of main.rs, or one call of the library.
CommandStep == pc = "read"

\* The action that the last undo moved to the redo stack.
Undone == Top(redo_stack)

\* C1: in main.rs an Undo restores the buffer content to exactly what it
\* was before the first op of the action it undoes (and so k Undos restore
\* the content from before the last k actions).
C1_UndoRestoresContent ==
    (prog = "main" /\ last.cmd = "Undo" /\ last.acted)
        => buffer = Undone.g_buffer

\* C2: in main.rs, after an Undo the cursor is where it was immediately
\* before the first op of the undone action.
C2_UndoRestoresCursor ==
    (prog = "main" /\ last.cmd = "Undo" /\ last.acted)
        => cursor_char_idx = Undone.g_cursor

\* C3: in main.rs an Undo immediately followed by a Redo restores the
\* buffer content that held before the Undo.
C3_UndoRedoRestoresContent ==
    [][(prog = "main" /\ CommandStep
        /\ last.cmd = "Undo" /\ last.acted
        /\ last'.cmd = "Redo" /\ last'.acted)
           => buffer' = last.g_before]_vars

\* C4: in main.rs, after every command that changed the buffer and is not
\* Undo or Redo (a typed character, a newline, a Backspace that deletes,
\* Cut, Paste) the redo stack is empty.
C4_EditClearsRedo ==
    (prog = "main"
     /\ last.cmd \in {"InsertChar", "InsertNewline", "Backspace", "Cut", "Paste"}
     /\ last.acted)
        => redo_stack = <<>>

C4_Witness ==
    /\ prog = "main"
    /\ last.cmd = "Paste"
    /\ last.acted
    /\ Len(undo_stack) = 2

\* The step recorded an edit: in main.rs every typed character, newline and
\* Cut, and every Backspace and Paste that took effect; in the library
\* every add_insert and add_delete.
Records ==
    /\ CommandStep
    /\ pc' # "panicked"
    /\ \/ last'.cmd \in {"InsertChar", "InsertNewline", "Cut",
                         "add_insert", "add_delete"}
       \/ last'.cmd \in {"Backspace", "Paste"} /\ last'.acted

\* The step typed a character of a burst, in main.rs.
Types == CommandStep /\ last'.cmd = "InsertChar" /\ last'.acted

\* C5: a recorded edit is appended to the top undo action, whose timestamp
\* becomes the time of the edit, when less than the threshold has passed
\* since that action's timestamp, and is pushed as a new action of one op
\* otherwise; n characters typed with every delay under the threshold are
\* in one action, which one Undo pops whole, taking the n characters out of
\* the buffer (and restoring the text exactly when they are one byte
\* each); two characters typed at least the threshold apart are in two
\* actions.
C5_Coalescing ==
    [][/\ Records =>
            IF undo_stack # <<>>
               /\ now' - Top(undo_stack).timestamp < GROUP_TIME_THRESHOLD
            THEN /\ Len(undo_stack') = Len(undo_stack)
                 /\ Pop(undo_stack') = Pop(undo_stack)
                 /\ Len(Top(undo_stack').ops) = Len(Top(undo_stack).ops) + 1
                 /\ Pop(Top(undo_stack').ops) = Top(undo_stack).ops
                 /\ Top(undo_stack').timestamp = now'
            ELSE /\ Pop(undo_stack') = undo_stack
                 /\ Len(Top(undo_stack').ops) = 1
                 /\ Top(undo_stack').timestamp = now'
       /\ Types => Len(Top(undo_stack').ops) >= last'.burst
       /\ (Types /\ last.cmd = "InsertChar"
           /\ now' - now >= GROUP_TIME_THRESHOLD)
              => Len(undo_stack') = Len(undo_stack) + 1
       /\ (prog = "main" /\ CommandStep
           /\ last.cmd = "InsertChar"
           /\ Len(Top(undo_stack).ops) = last.burst
           /\ last'.cmd = "Undo" /\ last'.acted)
              => /\ undo_stack' = Pop(undo_stack)
                 /\ Len(buffer') <= Len(buffer) - last.burst
                 /\ (\A i \in 1..last.burst :
                        Top(undo_stack).ops[i].content = <<"a">>)
                       => buffer' = Top(undo_stack).g_buffer
      ]_vars

C5_Witness ==
    /\ prog = "main"
    /\ last.cmd = "Undo"
    /\ last.acted
    /\ Len(Undone.ops) = 2
    /\ \A i \in 1..2 : Undone.ops[i] = Insert(i - 1, <<"a">>)
    /\ buffer = <<>>

\* C6: an undo with an empty undo stack leaves the buffer, the cursor, the
\* redo stack and the dirty lines as they are, and a redo with an empty
\* redo stack leaves the buffer, the cursor, the undo stack and the dirty
\* lines as they are (main.rs and buffer.rs).
C6_EmptyStackNoOp ==
    [][/\ (CommandStep /\ last'.cmd \in {"Undo", "undo"} /\ undo_stack = <<>>)
            => UNCHANGED <<buffer, cursor_char_idx, redo_stack, dirty_lines>>
       /\ (CommandStep /\ last'.cmd \in {"Redo", "redo"} /\ redo_stack = <<>>)
            => UNCHANGED <<buffer, cursor_char_idx, undo_stack, dirty_lines>>
      ]_vars

C6_Witness ==
    /\ prog = "main"
    /\ last.cmd = "Undo"
    /\ ~last.acted
    /\ pc = "render"
    /\ redo_stack # <<>>

\* C7: in main.rs a successful open replaces the buffer with the content of
\* the file, empties the undo stack and the redo stack, and puts the cursor
\* and viewport_row at 0.
C7_OpenResets ==
    (last.cmd = "OpenOk")
        => /\ buffer = disk[filename_input][1]
           /\ undo_stack = <<>>
           /\ redo_stack = <<>>
           /\ cursor_char_idx = 0
           /\ viewport_row = 0

\* C8: in main.rs no command, from any reachable state, calls a rope
\* operation with an index past the end of the buffer: the loop never
\* panics.
C8_NeverPanics == prog = "main" => pc # "panicked"

\* C9: in main.rs an open or a save that fails sets a status message and
\* returns to Editing mode, and leaves the buffer, the cursor,
\* viewport_row, the undo stack, the redo stack and current_file as they
\* are.
C9_FailedFileOpKeepsState ==
    [][(CommandStep /\ last'.cmd \in {"OpenFail", "SaveFail"})
           => /\ status_message' # None
              /\ input_mode' = "Editing"
              /\ UNCHANGED <<buffer, cursor_char_idx, viewport_row, undo_stack,
                             redo_stack, current_file>>]_vars

C9_Witness ==
    /\ last.cmd = "SaveFail"
    /\ pc = "render"
    /\ current_file = None
    /\ buffer # <<>>
    /\ undo_stack # <<>>
    /\ redo_stack # <<>>

\* What row r (0-based) of the screen shows when it shows the buffer.
true_row(r) ==
    IF viewport_row + r < len_lines(buffer)
    THEN combined_line(buffer, viewport_row + r)
    ELSE tilde_line

\* C10: in main.rs, after every render pass every row r of the screen shows
\* the gutter and the content of buffer line viewport_row + r, or the
\* placeholder when that line is past the end of the document.
C10_ScreenShowsBuffer ==
    (prog = "main" /\ pc = "read")
        => \A r \in 0..(max_lines - 1) : terminal[r + 1] = true_row(r)

\* The one op of an action of one op.
OnlyOp(action) == action.ops[1]

\* C17: in main.rs every removal (Backspace, Cut, the undo of an Insert, the
\* redo of a Delete) takes out exactly the characters of the op's content,
\* counted in chars and not in UTF-8 bytes, and the cursor after the undo
\* of a Delete or the redo of an Insert is the op's offset plus the number
\* of chars of its content.
C17_CountsChars ==
    [][(prog = "main" /\ CommandStep /\ pc' = "render") =>
          /\ (last'.cmd = "Backspace" /\ last'.acted)
                => buffer' = remove(buffer, cursor_char_idx - 1, cursor_char_idx)
          /\ (last'.cmd = "Cut")
                => buffer' = remove(buffer, line_to_char(buffer, current_line),
                                    line_end)
          /\ (last'.cmd = "Undo" /\ last'.acted /\ Len(Top(undo_stack).ops) = 1)
                => LET op == OnlyOp(Top(undo_stack))
                   IN  IF op.kind = "Insert"
                       THEN Len(buffer') = Len(buffer)
                              - Min(Len(op.content), Len(buffer) - op.char_idx)
                       ELSE cursor_char_idx' = op.char_idx + Len(op.content)
          /\ (last'.cmd = "Redo" /\ last'.acted /\ Len(Top(redo_stack).ops) = 1)
                => LET op == OnlyOp(Top(redo_stack))
                   IN  IF op.kind = "Delete"
                       THEN Len(buffer') = Len(buffer)
                              - Min(Len(op.content), Len(buffer) - op.char_idx)
                       ELSE cursor_char_idx' = op.char_idx + Len(op.content)
      ]_vars

\* C18: in buffer.rs, undo of an action Delete{o, t} reinserts the whole of
\* t at o: the buffer after the undo is the buffer from before the
\* deletion.
C18_LibUndoReinsertsAll ==
    (prog = "lib" /\ pc = "read" /\ last.cmd = "undo" /\ last.acted
     /\ Len(Undone.ops) = 1 /\ OnlyOp(Undone).kind = "Delete")
        => buffer = Undone.g_buffer

\* C19: in buffer.rs, redo of an action Insert{o, t} leaves the chars of t
\* at o .. o + len(t) in their order, and an undo followed by a redo
\* restores the buffer from before the undo.
C19_LibRedoKeepsOrder ==
    [][/\ (Calling /\ pc' = "read" /\ last'.cmd = "redo" /\ last'.acted
           /\ Len(Top(redo_stack).ops) = 1
           /\ OnlyOp(Top(redo_stack)).kind = "Insert")
            => LET op == OnlyOp(Top(redo_stack))
               IN  /\ Len(buffer') >= op.char_idx + Len(op.content)
                   /\ slice(buffer', op.char_idx, op.char_idx + Len(op.content))
                        = op.content
       /\ (Calling /\ pc' = "read" /\ last.cmd = "undo" /\ last.acted
           /\ last'.cmd = "redo" /\ last'.acted)
            => buffer' = last.g_before
      ]_vars

\* C20: in buffer.rs, after every call of add_insert or add_delete the redo
\* stack is empty, whichever path the call took, under a monotonic clock.
C20_LibAddClearsRedo ==
    (prog = "lib" /\ last.cmd \in {"add_insert", "add_delete"})
        => redo_stack = <<>>

C20_Witness ==
    /\ prog = "lib"
    /\ last.cmd = "add_insert"
    /\ last.g_redo > 0
    /\ undo_stack # <<>>
    /\ Len(Top(undo_stack).ops) = 1

\* The cursor's line and the dirty lines the render pass consumes, at the
\* top of an iteration.
cursor_line == char_to_line(buffer, cursor_char_idx)
consumed == dirty_lines \cup reconcile_dirty(viewport_row, cursor_line)

\* The top of an iteration, from the reconciliation to the flush.
RenderStep == prog = "main" /\ pc = "render" /\ pc' = "read"

\* C11: in main.rs, whenever the reconciliation changes viewport_row, every
\* line of the new window viewport_row .. viewport_row + max_lines - 1 is
\* in the dirty set that render pass consumes.
C11_ScrollDirtiesWindow ==
    [][(RenderStep /\ viewport_row' # viewport_row)
          => \A i \in viewport_row'..(viewport_row' + max_lines - 1) :
                i \in consumed]_vars

\* C12: in main.rs, after the reconciliation of every iteration the
\* cursor's line is in the window:
\* viewport_row <= cursor_line < viewport_row + max_lines.
C12_CursorInWindow ==
    (prog = "main" /\ pc = "read")
        => /\ viewport_row <= cursor_line
           /\ cursor_line < viewport_row + max_lines

C12_Witness ==
    /\ prog = "main"
    /\ pc = "read"
    /\ viewport_row = 1
    /\ cursor_line = viewport_row + max_lines - 1
    /\ undo_stack # <<>>

\* C13: in main.rs, after the reconciliation, viewport_row is 0 whenever
\* the document has fewer lines than max_lines.
C13_ShortDocAtTop ==
    (prog = "main" /\ pc = "read" /\ len_lines(buffer) < max_lines)
        => viewport_row = 0

\* C14: in main.rs, after every render pass the cache entry of every text
\* row is the string last written to the terminal at that row: a row is
\* written exactly when its cache entry is updated, with the same string.
C14_CacheIsTerminal ==
    [][RenderStep =>
          \A r \in 1..max_lines :
              /\ virtual_screen'[r] = terminal'[r]
              /\ (terminal'[r] # terminal[r]) <=> (virtual_screen'[r] # virtual_screen[r])
      ]_vars

C14_Witness ==
    /\ prog = "main"
    /\ pc = "read"
    /\ last.cmd = "Redo"
    /\ last.acted
    /\ terminal[max_lines] # tilde_line
    /\ terminal[max_lines] = virtual_screen[max_lines]

\* C15: in main.rs, after any render pass, a second pass with an empty
\* dirty set and the same buffer, cursor and viewport writes no text row.
C15_RepaintWritesNothing ==
    (prog = "main" /\ pc = "read")
        => rows_written(virtual_screen, buffer,
                        reconcile(viewport_row, cursor_line), {}) = {}

C15_Witness ==
    /\ prog = "main"
    /\ pc = "read"
    /\ last.acted
    /\ len_lines(buffer) = 2
    /\ terminal[2] # tilde_line
    /\ terminal[max_lines] = tilde_line

\* The commands of main.rs that record an edit.
RecordedEdits == {"InsertChar", "InsertNewline", "Backspace", "Cut", "Paste"}

\* Every statement a of the handler comes before every statement b.
AllBefore(order, a, b) ==
    \A i, j \in 1..Len(order) : (order[i] = a /\ order[j] = b) => i < j

C23_BackspaceAtStart ==
    [][/\ (prog = "main" /\ CommandStep /\ last'.cmd = "Backspace"
           /\ cursor_char_idx = 0)
            => UNCHANGED <<buffer, cursor_char_idx, undo_stack, redo_stack,
                           dirty_lines>>
       /\ \A start \in 0..(MaxLen + 1), length \in 0..(MaxLen + 1) :
             (length = 0 \/ start >= len_chars(buffer))
                => safe_remove(buffer, start, length) = buffer
      ]_vars

C23_Witness ==
    /\ prog = "main"
    /\ pc = "render"
    /\ last.cmd = "Backspace"
    /\ ~last.acted
    /\ cursor_char_idx = 0
    /\ buffer # <<>>
    /\ undo_stack # <<>>
    /\ redo_stack # <<>>

\* C24: in main.rs, after every render pass every row past the end of the
\* document shows the placeholder, whatever came before, and such a row is
\* written only when its cache entry is not the placeholder.
C24_PlaceholderRows ==
    [][RenderStep =>
          \A r \in 1..max_lines :
              (viewport_row' + r - 1 >= len_lines(buffer))
                 => /\ terminal'[r] = tilde_line
                    /\ (virtual_screen[r] = tilde_line)
                          => r \notin rows_written(virtual_screen, buffer,
                                                  viewport_row', consumed)
      ]_vars

C24_Witness ==
    /\ prog = "main"
    /\ pc = "read"
    /\ last.cmd = "Undo"
    /\ last.acted
    /\ len_lines(last.g_before) = 3
    /\ len_lines(buffer) = 1
    /\ terminal[2] = tilde_line
    /\ terminal[3] = tilde_line

\* C25: an insertion at an offset past the end of the buffer fails with an
\* error and leaves the buffer as it is: in main.rs the undo of a Delete
\* and the redo of an Insert whose offset is past the end leave the buffer
\* unchanged, and in buffer.rs they return without a panic and leave the
\* buffer unchanged.
C25_InsertPastEndFails ==
    [][/\ (CommandStep /\ last'.cmd \in {"Undo", "undo"} /\ undo_stack # <<>>
           /\ Len(Top(undo_stack).ops) = 1
           /\ OnlyOp(Top(undo_stack)).kind = "Delete"
           /\ OnlyOp(Top(undo_stack)).char_idx > len_chars(buffer))
            => pc' # "panicked" /\ buffer' = buffer
       /\ (CommandStep /\ last'.cmd \in {"Redo", "redo"} /\ redo_stack # <<>>
           /\ Len(Top(redo_stack).ops) = 1
           /\ OnlyOp(Top(redo_stack)).kind = "Insert"
           /\ OnlyOp(Top(redo_stack)).char_idx > len_chars(buffer))
            => pc' # "panicked" /\ buffer' = buffer
      ]_vars

\* C26: in main.rs, after every command the cursor is an offset of the
\* buffer: 0 <= cursor_char_idx <= len_chars(buffer).
C26_CursorInBuffer ==
    (prog = "main" /\ pc \in {"render", "read"})
        => (0 <= cursor_char_idx /\ cursor_char_idx <= len_chars(buffer))

\* Consecutive actions of a stack are at least the threshold apart.
Spaced(stack) ==
    \A i \in 1..(Len(stack) - 1) :
        stack[i + 1].timestamp - stack[i].timestamp >= GROUP_TIME_THRESHOLD

\* C27: under a monotonic clock the timestamps on the undo stack increase
\* from bottom to top, consecutive ones at least the threshold apart; every
\* action on the redo stack has a timestamp at least the threshold later
\* than the top undo action's; so no edit recorded now or later is grouped
\* with the top undo action while the redo stack is not empty (main.rs and
\* buffer.rs).
C27_TimestampsSpaced ==
    /\ Spaced(undo_stack)
    /\ undo_stack # <<>>
          => \A i \in 1..Len(redo_stack) :
                redo_stack[i].timestamp - Top(undo_stack).timestamp
                    >= GROUP_TIME_THRESHOLD
    /\ redo_stack # <<>>
          => \A t \in now..(MaxClock + GROUP_TIME_THRESHOLD) :
                ~Coalesces(undo_stack, t)

C27_Witness ==
    /\ undo_stack # <<>>
    /\ redo_stack # <<>>
    /\ last.cmd \in {"Undo", "undo"}
    /\ last.acted
    /\ now - Top(undo_stack).timestamp >= GROUP_TIME_THRESHOLD

\* C28: in main.rs a command other than Undo and Redo that leaves the
\* buffer content as it is leaves the undo stack and the redo stack as they
\* are (no op of empty content is recorded).
C28_NoOpKeepsHistory ==
    [][(prog = "main" /\ CommandStep /\ buffer' = buffer
        /\ last'.cmd \notin {"Undo", "Redo"})
          => UNCHANGED <<undo_stack, redo_stack>>]_vars

\* C30: in main.rs, in the two file-name modes no key changes the undo
\* stack or the redo stack, and none but the Enter of a successful open
\* changes the buffer or the cursor; Esc and Enter return to Editing mode,
\* whether the file operation succeeds or fails; the loop is left through
\* Quit from Editing mode only.
C30_PromptKeys ==
    [][/\ (prog = "main" /\ pc = "read" /\ input_mode # "Editing")
            => /\ UNCHANGED <<undo_stack, redo_stack>>
               /\ last'.cmd # "OpenOk" => UNCHANGED <<buffer, cursor_char_idx>>
               /\ last'.cmd \in {"Esc", "OpenOk", "OpenFail", "SaveOk", "SaveFail"}
                     => input_mode' = "Editing"
               /\ pc' # "done"
       /\ (prog = "main" /\ pc' = "done" /\ pc # "done")
            => input_mode = "Editing"
      ]_vars

C30_Witness ==
    /\ prog = "main"
    /\ pc = "render"
    /\ last.cmd = "Esc"
    /\ input_mode = "Editing"
    /\ buffer # <<>>
    /\ undo_stack # <<>>
    /\ redo_stack # <<>>

\* The lines of the buffer.
AllLines == 0..(len_lines(buffer) - 1)

\* What render.rs means the row of line l to show.
intended_content(l) ==
    IF l >= len_lines(buffer) THEN tilde_line
    ELSE gutter(l) \o line_str(buffer, l)

\* C21: in Renderer::render a dirty line inside the viewport whose intended
\* row content equals the cache entry of its row causes no write to the
\* terminal.
C21_WritesOnMismatchOnly ==
    [][(prog = "find" /\ pc = "loop" /\ last'.cmd = "render_line")
          => LET l == render_line_idx'
             IN  (/\ l >= viewport_row
                  /\ l < viewport_row + max_lines
                  /\ virtual_screen[l - viewport_row + 1] = intended_content(l))
                     => ~last'.acted
      ]_vars

\* C22: in input.rs every change of the confirmed find term adds every
\* line of the buffer to the dirty set: the Esc of the Find prompt and
\* start_find in their own step, the Enter of the Find prompt by the end of
\* the confirm_find that follows it.
C22_TermChangeDirtiesAll ==
    [][/\ (prog = "find" /\ last'.cmd \in {"Esc", "start_find"}
           /\ confirmed_find_term' # confirmed_find_term)
            => AllLines \subseteq dirty_lines'
       /\ (prog = "find" /\ pc = "ConfirmFind" /\ last'.cmd = "confirm_find"
           /\ confirmed_find_term' # last.g_before)
            => AllLines \subseteq dirty_lines'
      ]_vars

\* C29: in input.rs the confirmed find term is None or a non-empty string
\* in every state reached through key events, start_find and confirm_find;
\* and every iteration of the highlight loop of Renderer::render consumes
\* at least one character of the rest of the line, so the loop terminates.
C29_TermNonEmpty ==
    /\ [](prog = "find"
            => (confirmed_find_term = None \/ confirmed_find_term[1] # <<>>))
    /\ [][(prog = "find" /\ pc = "highlight" /\ remaining # <<>>)
            => Len(remaining') < Len(remaining)]_vars

C29_Witness ==
    /\ prog = "find"
    /\ pc = "highlight"
    /\ confirmed_find_term # None
    /\ last.cmd = "highlight"
    /\ last.acted
    /\ remaining # <<>>
    /\ terminal_reverse[render_line_idx - viewport_row + 1] # {}
=============================================================================
